---- MODULE Spec2Model ----
(***************************************************************************)
(* Model of the face store of opentrack: ImageStore (src/image_store.py)   *)
(* with its snapshot file, and the callers' view of the metadata mappings  *)
(* it hands in and gets back (src/app.py).                                 *)
(* Further specifications run add_image on the service's worker threads,   *)
(* run the database migration (src/migrate_database.py) beside the         *)
(* service, and stop the process in the middle of a snapshot write.        *)
(*                                                                         *)
(* Python lists are sequences, Python dicts are functions from a set of    *)
(* keys.  A dict is an object with identity: `heap` maps object ids to     *)
(* dict values, and both the store's metadata list and the caller hold     *)
(* object ids (references).                                                *)
(*                                                                         *)
(* Encodings are 2-dimensional integer vectors.  The Euclidean distance is *)
(* carried as its square: sqrt is monotone, so comparing two distances is  *)
(* comparing their squares, and distance <= tolerance is                   *)
(* tolerance >= 0 /\ distance^2 <= tolerance^2.                            *)
(***************************************************************************)
EXTENDS Integers, Sequences, FiniteSets, TLC

\* ---- bounds -------------------------------------------------------------
MaxStore == 3      \* records in the store
MaxObj   == 4      \* dict objects alive at once
MaxUid   == 2      \* user ids 1..MaxUid
MaxCoord == 2      \* query coordinates 0..MaxCoord
MaxTol   == 2      \* tolerances -1..MaxTol
MaxFaults == 1     \* failed snapshot writes in a row
MaxRewrites == 1   \* rewrites of a mapping by the caller, per store
MaxThreads == 2    \* worker threads calling add_image at the same time
MaxRows == 2       \* rows the migration query returns

\* ---- Python values ------------------------------------------------------
None == 0          \* an omitted argument / a missing key read with .get

Obj  == 1..MaxObj
Uids == 1..MaxUid

EmptyDict == [k \in {} |-> 0]
Has(d, k) == k \in DOMAIN d
Get(d, k) == IF k \in DOMAIN d THEN d[k] ELSE None
Put(d, k, v) == [x \in (DOMAIN d) \cup {k} |-> IF x = k THEN v ELSE d[x]]

Range(s) == {s[i] : i \in 1..Len(s)}
Min(S) == CHOOSE x \in S : \A y \in S : x <= y
Max(S) == CHOOSE x \in S : \A y \in S : x >= y

\* the face vectors the encoder produces for enrolment images
EnrolVecs == {<<0, 0>>, <<MaxCoord, 0>>}
\* the first face vector of an image submitted for identification
QueryVecs == (0..MaxCoord) \X (0..1)
Tolerances == (0 - 1)..MaxTol

\* an image as add_image / identify_face see it
\*   "unreadable" : neither image_path nor image_bytes is given, or loading
\*                  the image raises
\*   "faces"      : the image loads and the encoder returns `faces`
Image(kind, faces) == [kind |-> kind, faces |-> faces]
EnrolImages ==
    {Image("unreadable", <<>>), Image("faces", <<>>)}
    \cup {Image("faces", <<v>>) : v \in EnrolVecs}
QueryImages ==
    {Image("unreadable", <<>>), Image("faces", <<>>)}
    \cup {Image("faces", <<v>>) : v \in QueryVecs}
    \cup {Image("faces", <<<<0, 0>>, <<MaxCoord, 0>> >>)}

\* the mappings a caller builds
CallerDicts == {EmptyDict, [user_id |-> 1]}

\* what the file system does to one save_store call
DiskOutcomes == {"ok", "open_fails", "dump_fails"}

VARIABLES
    face_encodings,   \* self.face_encodings
    metadata,         \* self.metadata: a list of references to dicts
    heap,             \* the dict objects
    file,             \* the snapshot file at store_path
    callerRefs,       \* the dict objects the caller holds a reference to
    returned,         \* the list the caller got from get_all_metadata
    last,             \* the most recent call, its arguments and its outcome
    hist,             \* what has happened to this store since it was built
    threads           \* the add_image calls in progress, one per worker thread

vars == <<face_encodings, metadata, heap, file, callerRefs, returned, last, hist,
          threads>>

\* ---- the snapshot file (pickle) -----------------------------------------
\* pickle.dump writes the two lists by value; a dict that occurs twice in
\* self.metadata is written once and referred to again (`share` gives, for
\* each position, the first position holding the same object), so a load
\* rebuilds the same sharing.
AbsentFile  == [kind |-> "absent",  encodings |-> <<>>, metadata |-> <<>>, share |-> <<>>]
CorruptFile == [kind |-> "corrupt", encodings |-> <<>>, metadata |-> <<>>, share |-> <<>>]

\* A file whose write was cut short: pickle.dump writes the items of the
\* 'encodings' list, then the items of the 'metadata' list, then the STOP
\* opcode.  PartialFile(snap, k) holds the first k items of snap and no STOP;
\* a file that was opened for writing and not written to is
\* PartialFile(snap, 0).
PartialFile(snap, k) ==
    LET n  == Len(snap.encodings)
        ke == IF k < n THEN k ELSE n
        km == IF k < n THEN 0 ELSE k - n
    IN  [kind      |-> "partial",
         encodings |-> [i \in 1..ke |-> snap.encodings[i]],
         metadata  |-> [i \in 1..km |-> snap.metadata[i]],
         share     |-> [i \in 1..km |-> snap.share[i]]]

\* open(store_path, 'wb'): the file is cut to length 0
Truncated == PartialFile(AbsentFile, 0)

\* writing at the end of the file instead of from its start: the file then
\* still begins with what it held
WriteFileAtEnd(f, bytes) ==
    IF f.kind = "snapshot" THEN f ELSE bytes

\* the bytes pickle.dump produced reach the file through a handle opened
\* with 'wb', which writes from offset 0: the file then begins with these
\* bytes, and pickle.load reads one pickle from the start of a file
WriteFile(f, bytes) == bytes

\* save_store writing the metadata under a key that load_store does not read
SnapshotKeyMismatch(enc, meta, hp) ==
    [kind |-> "snapshot", encodings |-> enc, metadata |-> <<>>, share |-> <<>>]

Snapshot(enc, meta, hp) ==
    [kind      |-> "snapshot",
     encodings |-> enc,
     metadata  |-> [i \in 1..Len(meta) |-> hp[meta[i]]],
     share     |-> [i \in 1..Len(meta) |-> Min({j \in 1..i : meta[j] = meta[i]})]]

\* A store as the methods see it: the two lists, the heap and the file, with
\* the outcome of the call in progress.
\*   result : "True" | "False" | "None" | "raise"
\*   wrote  : save_store was called
\*   saved  : save_store was called and returned
Store(enc, meta, hp, f) ==
    [enc |-> enc, meta |-> meta, heap |-> hp, file |-> f,
     result |-> "None", wrote |-> FALSE, saved |-> FALSE]

\* save_store: a full overwrite of the file.  open(.., 'wb') may fail and
\* leave the file as it was; once the file is open it is truncated, and a
\* failing pickle.dump leaves an unreadable file.  Either failure is
\* re-raised.
SaveStore(st, disk) ==
    CASE disk = "ok" ->
            [st EXCEPT !.file = Snapshot(st.enc, st.meta, st.heap),
                       !.wrote = TRUE, !.saved = TRUE, !.result = "None"]
      [] disk = "open_fails" ->
            [st EXCEPT !.wrote = TRUE, !.saved = FALSE, !.result = "raise"]
      [] disk = "dump_fails" ->
            [st EXCEPT !.file = CorruptFile,
                       !.wrote = TRUE, !.saved = FALSE, !.result = "raise"]

\* save_store cut short because the process stops.  `at` says where:
\*   -1               : before open(): the file is as it was
\*   0 .. items       : after open(), with that many list items written
\*   items + 1        : after the last byte; the `with` block has closed
StopPoints(st) == (0 - 1)..(Len(st.enc) + Len(st.meta) + 1)

SaveStoreStopped(st, at) ==
    LET snap == Snapshot(st.enc, st.meta, st.heap)
    IN  [st EXCEPT !.file = IF at < 0 THEN st.file
                            ELSE IF at > Len(st.enc) + Len(st.meta) THEN snap
                            ELSE PartialFile(snap, at),
                   !.wrote = TRUE,
                   !.saved = at > Len(st.enc) + Len(st.meta),
                   !.result = "stopped"]

\* load_store without the try/except around the read.
LoadStoreUnguarded(f) ==
    CASE f.kind = "absent" ->
            [enc |-> <<>>, meta |-> <<>>, heap |-> [o \in Obj |-> EmptyDict],
             result |-> "None"]
      [] f.kind \in {"corrupt", "partial"} ->
            [enc |-> <<>>, meta |-> <<>>, heap |-> [o \in Obj |-> EmptyDict],
             result |-> "raise"]
      [] f.kind = "snapshot" ->
            [enc |-> f.encodings, meta |-> f.share,
             heap |-> [o \in Obj |-> IF o \in Range(f.share)
                                     THEN f.metadata[o] ELSE EmptyDict],
             result |-> "None"]

\* a load_store that keeps what it could read of a file that ends early
LoadStoreSalvage(f) ==
    CASE f.kind = "absent" ->
            [enc |-> <<>>, meta |-> <<>>, heap |-> [o \in Obj |-> EmptyDict],
             result |-> "None"]
      [] f.kind = "corrupt" ->
            [enc |-> <<>>, meta |-> <<>>, heap |-> [o \in Obj |-> EmptyDict],
             result |-> "None"]
      [] f.kind \in {"snapshot", "partial"} ->
            [enc |-> f.encodings, meta |-> f.share,
             heap |-> [o \in Obj |-> IF o \in Range(f.share)
                                     THEN f.metadata[o] ELSE EmptyDict],
             result |-> "None"]

\* __init__ followed by load_store: both lists start empty; an existing file
\* is unpickled, and any exception while reading it resets both lists to
\* empty.  A loaded dict that was shared in the file is shared again: the
\* object of position i is the object numbered share[i].
LoadStore(f) ==
    CASE f.kind = "absent" ->
            [enc |-> <<>>, meta |-> <<>>, heap |-> [o \in Obj |-> EmptyDict],
             result |-> "None"]
      [] f.kind = "corrupt" ->
            [enc |-> <<>>, meta |-> <<>>, heap |-> [o \in Obj |-> EmptyDict],
             result |-> "None"]
      [] f.kind = "partial" ->
            \* pickle.load runs out of data before STOP and raises
            [enc |-> <<>>, meta |-> <<>>, heap |-> [o \in Obj |-> EmptyDict],
             result |-> "None"]
      [] f.kind = "snapshot" ->
            [enc |-> f.encodings, meta |-> f.share,
             heap |-> [o \in Obj |-> IF o \in Range(f.share)
                                     THEN f.metadata[o] ELSE EmptyDict],
             result |-> "None"]

\* the (encoding, metadata) pairs of a store, by value
Records(enc, meta, hp) ==
    [i \in 1..Len(meta) |-> <<enc[i], hp[meta[i]]>>]

\* ---- objects ------------------------------------------------------------
\* the object a dict literal / a load gets: the lowest id not in use
NewObj(used) == Min(Obj \ used)

\* objects nobody refers to any more are reclaimed
Collect(hp, live) == [o \in Obj |-> IF o \in live THEN hp[o] ELSE EmptyDict]

\* ---- add_image ----------------------------------------------------------
\* metadata.setdefault('user_id', user_id) in place of the assignment
PrepareMetadataSetDefault(hp, m, user_id) ==
    IF user_id # None /\ ~Has(hp[m], "user_id")
    THEN [hp EXCEPT ![m] = Put(@, "user_id", user_id)]
    ELSE hp

\* `if user_id is not None: metadata['user_id'] = user_id`, an assignment
\* into the dict object m itself
PrepareMetadata(hp, m, user_id) ==
    IF user_id # None
    THEN [hp EXCEPT ![m] = Put(@, "user_id", user_id)]
    ELSE hp

\* add_image with the save in a `finally:` clause, so that every path saves
AddImageFinally(st, refs, image, user_id, metaArg, disk) ==
    IF image.kind # "faces" \/ Len(image.faces) = 0
    THEN [SaveStore(st, disk) EXCEPT !.result = "False"]
    ELSE LET face_encoding == image.faces[1]
             m   == IF metaArg = None THEN NewObj(Range(st.meta) \cup refs)
                                      ELSE metaArg
             hp0 == IF metaArg = None THEN [st.heap EXCEPT ![m] = EmptyDict]
                                      ELSE st.heap
             appended == [st EXCEPT !.enc  = Append(@, face_encoding),
                                    !.meta = Append(@, m),
                                    !.heap = PrepareMetadata(hp0, m, user_id)]
             after == SaveStore(appended, disk)
         IN  [after EXCEPT !.result = IF after.result = "raise" THEN "False"
                                                                ELSE "True"]

\* add_image(image, user_id, metadata).  refs are the objects the caller
\* holds; metaArg is None or the caller's dict.  Every exception raised in
\* the body, the one save_store re-raises included, is caught by the
\* method's own `except Exception` and turned into False.
AddImage(st, refs, image, user_id, metaArg, disk) ==
    IF image.kind # "faces"
    THEN [st EXCEPT !.result = "False"]
    ELSE IF Len(image.faces) = 0
    THEN [st EXCEPT !.result = "False"]
    ELSE LET face_encoding == image.faces[1]
             m   == IF metaArg = None THEN NewObj(Range(st.meta) \cup refs)
                                      ELSE metaArg
             hp0 == IF metaArg = None THEN [st.heap EXCEPT ![m] = EmptyDict]
                                      ELSE st.heap
             appended == [st EXCEPT !.enc  = Append(@, face_encoding),
                                    !.meta = Append(@, m),
                                    !.heap = PrepareMetadata(hp0, m, user_id)]
             after == SaveStore(appended, disk)
         IN  [after EXCEPT !.result = IF after.result = "raise" THEN "False"
                                                                ELSE "True"]

\* ---- identify_face ------------------------------------------------------
\* squared Euclidean distance
Dist2(a, b) ==
    (a[1] - b[1]) * (a[1] - b[1]) + (a[2] - b[2]) * (a[2] - b[2])

\* face_recognition.face_distance: the distance of every stored encoding
FaceDistance(encs, q) == [i \in 1..Len(encs) |-> Dist2(encs[i], q)]

\* distance <= tolerance, on the squared distance
WithinTolerance(d2, tol) == tol >= 0 /\ d2 <= tol * tol

\* face_recognition.compare_faces: face_distance(..) <= tolerance, per record
CompareFaces(encs, q, tol) ==
    [i \in 1..Len(encs) |-> WithinTolerance(Dist2(encs[i], q), tol)]

RECURSIVE ArgMinFrom(_, _, _)
ArgMinFrom(ds, i, best) ==
    IF i > Len(ds) THEN best
    ELSE ArgMinFrom(ds, i + 1, IF ds[i] < ds[best] THEN i ELSE best)

RECURSIVE ArgMinLastFrom(_, _, _)
ArgMinLastFrom(ds, i, best) ==
    IF i > Len(ds) THEN best
    ELSE ArgMinLastFrom(ds, i + 1, IF ds[i] <= ds[best] THEN i ELSE best)

\* an arg-min that keeps the last of equal minima
ArgMinLast(ds) == ArgMinLastFrom(ds, 2, 1)

\* np.argmin: the first index holding the minimum
ArgMin(ds) == ArgMinFrom(ds, 2, 1)

NoMatch == [result |-> "None", index |-> 0, match |-> EmptyDict]

\* identify_face(image, tolerance).  The match is a copy of the stored dict
\* with 'distance' added (carried squared; 'confidence' is 1 - distance, a
\* function of the distance alone, and is not carried).
IdentifyFace(st, image, tol) ==
    IF image.kind # "faces" THEN NoMatch
    ELSE IF Len(image.faces) = 0 THEN NoMatch
    ELSE IF Len(st.enc) = 0 THEN NoMatch
    ELSE LET unknown_encoding == image.faces[1]
             matches        == CompareFaces(st.enc, unknown_encoding, tol)
             face_distances == FaceDistance(st.enc, unknown_encoding)
         IN  IF TRUE \in Range(matches)
             THEN LET best_match_index == ArgMin(face_distances)
                  IN  IF matches[best_match_index]
                      THEN [result |-> "match",
                            index  |-> best_match_index,
                            match  |-> Put(st.heap[st.meta[best_match_index]],
                                           "distance",
                                           face_distances[best_match_index])]
                      ELSE NoMatch
             ELSE NoMatch

\* ---- get_all_metadata ---------------------------------------------------
\* self.metadata.copy(): a new list holding the same dict objects
GetAllMetadata(st) == st.meta

\* ---- delete_by_user_id --------------------------------------------------
IndicesToDelete(st, user_id) ==
    {i \in 1..Len(st.meta) : Get(st.heap[st.meta[i]], "user_id") = user_id}

\* del s[i]
RemoveAt(s, i) == [j \in 1..(Len(s) - 1) |-> IF j < i THEN s[j] ELSE s[j + 1]]

RECURSIVE DeleteForward(_, _)
\* the deletions in increasing index order: later indices have shifted, and
\* one past the end is an IndexError that ends the loop
DeleteForward(s, idx) ==
    IF idx = {} THEN s
    ELSE LET i == Min(idx)
         IN  IF i > Len(s) THEN s
             ELSE DeleteForward(RemoveAt(s, i), idx \ {i})

RECURSIVE DeleteReverse(_, _)
\* `for i in sorted(indices_to_delete, reverse=True): del s[i]`
DeleteReverse(s, idx) ==
    IF idx = {} THEN s
    ELSE LET i == Max(idx)
         IN  DeleteReverse(RemoveAt(s, i), idx \ {i})

\* delete_by_user_id with the two `del` loops walking in opposite orders
DeleteByUserIdUnpaired(st, user_id, disk) ==
    LET indices_to_delete == IndicesToDelete(st, user_id)
    IN  IF indices_to_delete = {}
        THEN [st EXCEPT !.result = "False"]
        ELSE LET deleted == [st EXCEPT
                                !.enc  = DeleteReverse(@, indices_to_delete),
                                !.meta = DeleteForward(@, indices_to_delete)]
                 after == SaveStore(deleted, disk)
             IN  IF after.result = "raise" THEN after
                 ELSE [after EXCEPT !.result = "True"]

\* delete_by_user_id(user_id): a save_store failure is not caught here
DeleteByUserId(st, user_id, disk) ==
    LET indices_to_delete == IndicesToDelete(st, user_id)
    IN  IF indices_to_delete = {}
        THEN [st EXCEPT !.result = "False"]
        ELSE LET deleted == [st EXCEPT
                                !.enc  = DeleteReverse(@, indices_to_delete),
                                !.meta = DeleteReverse(@, indices_to_delete)]
                 after == SaveStore(deleted, disk)
             IN  IF after.result = "raise" THEN after
                 ELSE [after EXCEPT !.result = "True"]

\* ---- clear_store --------------------------------------------------------
ClearStore(st, disk) ==
    SaveStore([st EXCEPT !.enc = <<>>, !.meta = <<>>], disk)

\* ---- worker threads ------------------------------------------------------
\* The service runs its request handlers on a pool of worker threads that
\* share the one ImageStore.  The frame of an add_image call:
\*   pc            : where the call is
\*   face_encoding : the local face_encoding (line 96)
\*   user_id       : the argument
\*   buf           : what pickle.dump serialised, on its way to the file
\*   seen          : the lengths of the two lists when pickle.dump read them
\*   wroteLast     : this call's bytes were the last to reach the file
\*   result        : the return value of the thread's last call
Threads == 1..MaxThreads

IdleFrame ==
    [pc |-> "idle", face_encoding |-> <<>>, user_id |-> None,
     buf |-> AbsentFile, seen |-> [enc |-> 0, meta |-> 0],
     wroteLast |-> FALSE, result |-> "None"]

\* ---- the state machine --------------------------------------------------
Cur == Store(face_encodings, metadata, heap, file)

\* the record kept of a call
\*   result, wrote, saved : as in Store
\*   faces   : add_image: len(face_encodings), -1 when the image did not load
\*   user_id : the user_id argument of delete_by_user_id, and of an add_image
\*             that got as far as reading it
\*   arg     : the metadata argument of an add_image that got as far as
\*             reading it; the mapping the caller rewrote
\*   before  : the contents of that mapping when add_image was called
\*   index   : identify_face: best_match_index of a match
\*   removed : delete_by_user_id: len(indices_to_delete)
Call(op, out) ==
    [op |-> op, result |-> out.result, wrote |-> out.wrote, saved |-> out.saved,
     faces |-> 0, user_id |-> None, arg |-> None, before |-> EmptyDict,
     index |-> 0, removed |-> 0]

\* hist.clean   : since construction every save_store call has succeeded and
\*                the caller has not written into a stored dict
\* hist.cleared : clear_store has returned and no add_image has returned
\*                True since
\* hist.faults  : the failed save_store calls since the last one that
\*                succeeded (at most MaxFaults in a row)
\* hist.rewrites: the caller's rewrites of a mapping (at most MaxRewrites)
Fresh == [clean |-> TRUE, cleared |-> FALSE, faults |-> 0, rewrites |-> 0]

Faults(out) ==
    IF out.saved THEN 0
    ELSE IF out.wrote THEN hist.faults + 1
    ELSE hist.faults

\* the service is started for the first time: there is no snapshot file yet
Init ==
    /\ file = AbsentFile
    /\ face_encodings = LoadStore(file).enc
    /\ metadata = LoadStore(file).meta
    /\ heap = LoadStore(file).heap
    /\ callerRefs = {}
    /\ returned = <<>>
    /\ last = [Call("construct", Store(<<>>, <<>>, <<>>, file))
                  EXCEPT !.result = LoadStore(file).result]
    /\ hist = Fresh
    /\ threads = [t \in Threads |-> IdleFrame]

\* a restart of the service: ImageStore(store_path) in a new process
Construct ==
    \E ld \in {LoadStore(file)} :
        /\ face_encodings' = ld.enc
        /\ metadata' = ld.meta
        /\ heap' = ld.heap
        /\ callerRefs' = {}
        /\ returned' = <<>>
        /\ last' = [Call("construct", Cur) EXCEPT !.result = ld.result]
        /\ hist' = Fresh
        /\ UNCHANGED <<file, threads>>

\* the store's fields after a call; refs are the caller's references then
Install(out, refs) ==
    /\ face_encodings' = out.enc
    /\ metadata' = out.meta
    /\ file' = out.file
    /\ heap' = Collect(out.heap, Range(out.meta) \cup refs)
    /\ callerRefs' = refs

\* add_image called with the caller's objects `refs` and the argument
\* metadata = metaArg
AddCall(st, refs, image, user_id, metaArg, disk) ==
    LET appends == image.kind = "faces" /\ Len(image.faces) > 0
    IN  /\ appends => Len(face_encodings) < MaxStore
        /\ appends /\ metaArg = None => Obj \ (Range(metadata) \cup refs) # {}
        /\ disk # "ok" => appends /\ hist.faults < MaxFaults
        /\ \E out \in {AddImage(st, refs, image, user_id, metaArg, disk)} :
            /\ Install(out, refs)
            /\ last' = [Call("add", out) EXCEPT
                            !.faces = IF image.kind = "faces" THEN Len(image.faces)
                                                              ELSE 0 - 1,
                            !.user_id = IF appends THEN user_id ELSE None,
                            !.arg = IF appends THEN metaArg ELSE None,
                            !.before = IF appends /\ metaArg # None THEN st.heap[metaArg]
                                                                    ELSE EmptyDict]
            /\ hist' = [hist EXCEPT !.clean   = @ /\ (out.wrote => out.saved),
                                    !.cleared = @ /\ out.result # "True",
                                    !.faults  = Faults(out)]
            /\ UNCHANGED <<returned, threads>>

\* add_image(.., metadata=None)
AddPlain(image, user_id, disk) ==
    AddCall(Cur, callerRefs, image, user_id, None, disk)

\* add_image(.., metadata=m) with a mapping m the caller has just built
\* (app.py: add_face collects the form fields, calls add_image and puts the
\* mapping in its response).  keep: the caller still holds m afterwards.
AddBuilt(image, user_id, d, keep, disk) ==
    LET used == Range(metadata) \cup callerRefs
        m    == NewObj(used)
    IN  /\ Obj \ used # {}
        /\ AddCall([Cur EXCEPT !.heap = [heap EXCEPT ![m] = d]],
                   IF keep THEN callerRefs \cup {m} ELSE callerRefs,
                   image, user_id, m, disk)

Identify(image, tol) ==
    \E r \in {IdentifyFace(Cur, image, tol)} :
        /\ last' = [Call("identify", Cur) EXCEPT
                        !.result = r.result, !.index = r.index]
        /\ UNCHANGED <<face_encodings, metadata, heap, file, callerRefs, returned, hist,
                     threads>>

List ==
    /\ returned' = GetAllMetadata(Cur)
    /\ callerRefs' = callerRefs \cup Range(returned')
    /\ last' = Call("list", Cur)
    /\ UNCHANGED <<face_encodings, metadata, heap, file, hist, threads>>

Delete(user_id, disk) ==
    /\ disk # "ok" => IndicesToDelete(Cur, user_id) # {} /\ hist.faults < MaxFaults
    /\ \E out \in {DeleteByUserId(Cur, user_id, disk)} :
        /\ Install(out, callerRefs)
        /\ last' = [Call("delete", out) EXCEPT
                        !.user_id = user_id,
                        !.removed = Cardinality(IndicesToDelete(Cur, user_id))]
        /\ hist' = [hist EXCEPT !.clean = @ /\ (out.wrote => out.saved),
                                !.faults = Faults(out)]
        /\ UNCHANGED <<returned, threads>>

Clear(disk) ==
    /\ disk # "ok" => hist.faults < MaxFaults
    /\ \E out \in {ClearStore(Cur, disk)} :
        /\ Install(out, callerRefs)
        /\ last' = Call("clear", out)
        /\ hist' = [hist EXCEPT !.clean   = @ /\ out.saved,
                                !.cleared = @ \/ out.saved,
                                !.faults  = Faults(out)]
        /\ UNCHANGED <<returned, threads>>

\* the caller rewrites a mapping it holds (assignments to and deletions of
\* keys), leaving it with the contents d
CallerMutate(o, d) ==
    /\ o \in callerRefs
    /\ heap[o] # d
    /\ hist.rewrites < MaxRewrites
    /\ heap' = [heap EXCEPT ![o] = d]
    /\ last' = [Call("caller_mutate", Cur) EXCEPT !.arg = o]
    /\ hist' = [hist EXCEPT !.clean = @ /\ o \notin Range(metadata),
                            !.rewrites = @ + 1]
    /\ UNCHANGED <<face_encodings, metadata, file, callerRefs, returned, threads>>

\* the caller changes the list it got from get_all_metadata: returned.pop(0)
CallerEditReturned ==
    /\ returned # <<>>
    /\ returned' = Tail(returned)
    /\ last' = Call("caller_edit_list", Cur)
    /\ UNCHANGED <<face_encodings, metadata, heap, file, callerRefs, hist, threads>>

\* the caller lets go of every mapping and list it holds (the request
\* handler returns)
CallerForget ==
    /\ callerRefs # {} \/ returned # <<>>
    /\ callerRefs' = {}
    /\ returned' = <<>>
    /\ heap' = Collect(heap, Range(metadata))
    /\ last' = Call("caller_forget", Cur)
    /\ UNCHANGED <<face_encodings, metadata, file, hist, threads>>

\* The service under disk faults; the callers keep no reference to a mapping
\* they passed in or got back.
Next ==
    \/ Construct
    \/ \E image \in EnrolImages, user_id \in Uids \cup {None}, disk \in DiskOutcomes :
            AddPlain(image, user_id, disk)
    \/ \E image \in EnrolImages, user_id \in Uids \cup {None},
          d \in CallerDicts, disk \in DiskOutcomes :
            AddBuilt(image, user_id, d, FALSE, disk)
    \/ \E image \in QueryImages, tol \in Tolerances : Identify(image, tol)
    \/ \E user_id \in Uids, disk \in DiskOutcomes : Delete(user_id, disk)
    \/ \E disk \in DiskOutcomes : Clear(disk)

Spec == Init /\ [][Next]_vars

\* The callers are request handlers as in app.py: a handler makes one call
\* on the store, may then rewrite the mapping it passed in or the list and
\* the mappings it got back, and returns.  The disk is reliable.
Idle == callerRefs = {} /\ returned = <<>>

NextCaller ==
    \/ Construct
    \/ Idle /\ \E image \in EnrolImages, user_id \in Uids \cup {None} :
            AddPlain(image, user_id, "ok")
    \/ Idle /\ \E image \in EnrolImages, user_id \in Uids \cup {None},
                  d \in CallerDicts :
            AddBuilt(image, user_id, d, TRUE, "ok")
    \/ Idle /\ List
    \/ Idle /\ \E user_id \in Uids : Delete(user_id, "ok")
    \/ Idle /\ Clear("ok")
    \/ \E o \in Obj, d \in CallerDicts : CallerMutate(o, d)
    \/ CallerEditReturned
    \/ CallerForget

SpecCaller == Init /\ [][NextCaller]_vars

\* ---- add_image on worker threads ----------------------------------------
\* add_image(image_bytes, user_id) running on thread t, statement by
\* statement; between any two statements another thread may run.  Nothing
\* in add_image or save_store takes a lock.
Frame(t) == threads[t]

\* lines 76-96: load the image and encode it; no face, or an image that does
\* not load, returns False
TEncode(t, image, user_id) ==
    /\ Frame(t).pc = "idle"
    /\ IF image.kind = "faces" /\ Len(image.faces) > 0
       THEN /\ Len(face_encodings)
                 + Cardinality({u \in Threads : Frame(u).pc = "encoded"}) < MaxStore
            /\ threads' = [threads EXCEPT ![t].pc = "encoded",
                                          ![t].face_encoding = image.faces[1],
                                          ![t].user_id = user_id]
       ELSE threads' = [threads EXCEPT ![t].result = "False"]
    /\ UNCHANGED <<face_encodings, metadata, heap, file, callerRefs, returned,
                   last, hist>>

\* line 106: self.face_encodings.append(face_encoding)
TAppendEncoding(t) ==
    /\ Frame(t).pc = "encoded"
    /\ face_encodings' = Append(face_encodings, Frame(t).face_encoding)
    /\ threads' = [threads EXCEPT ![t].pc = "appended_encoding"]
    /\ UNCHANGED <<metadata, heap, file, callerRefs, returned, last, hist>>

\* lines 99-103 and 107: the metadata dict, made by this call, is appended
TAppendMetadata(t) ==
    /\ Frame(t).pc = "appended_encoding"
    /\ LET m == NewObj(Range(metadata))
       IN  /\ heap' = PrepareMetadata([heap EXCEPT ![m] = EmptyDict], m,
                                      Frame(t).user_id)
           /\ metadata' = Append(metadata, m)
    /\ threads' = [threads EXCEPT ![t].pc = "appended"]
    /\ UNCHANGED <<face_encodings, file, callerRefs, returned, last, hist>>

\* save_store, line 54: open(self.store_path, 'wb')
TOpen(t) ==
    /\ Frame(t).pc = "appended"
    /\ file' = Truncated
    /\ threads' = [threads EXCEPT ![t].pc = "opened"]
    /\ UNCHANGED <<face_encodings, metadata, heap, callerRefs, returned, last, hist>>

\* save_store, line 55: pickle.dump reads the two lists as they are now and
\* hands the bytes to the buffered file
TDump(t) ==
    /\ Frame(t).pc = "opened"
    /\ threads' = [threads EXCEPT
                      ![t].pc = "dumped",
                      ![t].buf = Snapshot(face_encodings, metadata, heap),
                      ![t].seen = [enc  |-> Len(face_encodings),
                                   meta |-> Len(metadata)]]
    /\ UNCHANGED <<face_encodings, metadata, heap, file, callerRefs, returned,
                   last, hist>>

\* save_store, end of the `with` block: the buffer is flushed and the file
\* closed; add_image then returns True (line 113)
TClose(t) ==
    /\ Frame(t).pc = "dumped"
    /\ file' = WriteFile(file, Frame(t).buf)
    /\ threads' = [u \in Threads |->
                      IF u = t THEN [threads[u] EXCEPT !.pc = "idle",
                                                       !.wroteLast = TRUE,
                                                       !.result = "True"]
                               ELSE [threads[u] EXCEPT !.wroteLast = FALSE]]
    /\ UNCHANGED <<face_encodings, metadata, heap, callerRefs, returned, last, hist>>

NextThreads ==
    \E t \in Threads :
        \/ \E image \in EnrolImages, user_id \in Uids \cup {None} :
                TEncode(t, image, user_id)
        \/ TAppendEncoding(t)
        \/ TAppendMetadata(t)
        \/ TOpen(t)
        \/ TDump(t)
        \/ TClose(t)

SpecThreads == Init /\ [][NextThreads]_vars

\* ---- the database migration ---------------------------------------------
\* a row of the query: the user's id and the image its URL gives
MigrationRows ==
    UNION {[1..n -> [image : EnrolImages, user_id : Uids]] : n \in 1..MaxRows}

RECURSIVE AddRows(_, _)
\* the loop of example_sqlserver: store.add_image(image_bytes, user_id,
\* metadata={'name': .., 'email': ..}) for each row, on the migration's store
AddRows(st, rows) ==
    IF rows = <<>> THEN st
    ELSE LET row == Head(rows)
             m   == NewObj(Range(st.meta))
             st1 == [st EXCEPT !.heap = [@ EXCEPT ![m] = [name |-> row.user_id]]]
         IN  AddRows(AddImage(st1, {}, row.image, row.user_id, m, "ok"),
                     Tail(rows))

\* example_sqlserver: `store = ImageStore()` builds a second store on the
\* default path, which is the path of the service's store, and enrols the
\* rows into it
ExampleSqlserver(f, rows) ==
    LET ld == LoadStore(f)
    IN  AddRows(Store(ld.enc, ld.meta, ld.heap, f), rows)

\* store_database: the handler runs the migration inside the service; the
\* service's own store object is not involved
Migrate(rows) ==
    /\ Len(LoadStore(file).meta) + Len(rows) <= MaxStore
    /\ \E out \in {ExampleSqlserver(file, rows)} :
        /\ file' = out.file
        /\ last' = [Call("migrate", out) EXCEPT
                        !.result = "success",
                        !.wrote  = out.file # file,
                        !.saved  = out.file # file,
                        !.faces  = Len(out.meta) - Len(LoadStore(file).meta)]
    /\ UNCHANGED <<face_encodings, metadata, heap, callerRefs, returned, hist,
                   threads>>

\* The service with the migration endpoint, one request at a time, on a
\* reliable disk.
NextMigrate ==
    \/ Construct
    \/ \E image \in EnrolImages, user_id \in Uids \cup {None} :
            AddPlain(image, user_id, "ok")
    \/ \E image \in QueryImages, tol \in Tolerances : Identify(image, tol)
    \/ \E user_id \in Uids : Delete(user_id, "ok")
    \/ Clear("ok")
    \/ \E rows \in MigrationRows : Migrate(rows)

SpecMigrate == Init /\ [][NextMigrate]_vars

\* ---- the process stops during a write -----------------------------------
\* A mutating call has changed the lists and is in save_store when the
\* process stops at `at`; the service is started again and builds its store
\* on the same path.  `mutated` is the store as the call had it when it
\* entered save_store.
StopAndRestart(op, mutated, at, user_id) ==
    /\ at \in StopPoints(mutated)
    /\ \E out \in {SaveStoreStopped(mutated, at)} :
       \E ld \in {LoadStore(out.file)} :
        /\ file' = out.file
        /\ face_encodings' = ld.enc
        /\ metadata' = ld.meta
        /\ heap' = ld.heap
        /\ callerRefs' = {}
        /\ returned' = <<>>
        /\ last' = [Call(op, out) EXCEPT !.user_id = user_id]
        /\ hist' = Fresh
        /\ UNCHANGED threads

\* the store as add_image has it at line 110
StopInAdd(image, user_id, at) ==
    /\ image.kind = "faces" /\ Len(image.faces) > 0
    /\ Len(face_encodings) < MaxStore
    /\ Obj \ (Range(metadata) \cup callerRefs) # {}
    /\ StopAndRestart("stop_add",
                      [AddImage(Cur, callerRefs, image, user_id, None, "ok")
                          EXCEPT !.file = file],
                      at, user_id)

\* the store as delete_by_user_id has it at line 216
StopInDelete(user_id, at) ==
    /\ IndicesToDelete(Cur, user_id) # {}
    /\ StopAndRestart("stop_delete",
                      [DeleteByUserId(Cur, user_id, "ok") EXCEPT !.file = file],
                      at, user_id)

\* the store as clear_store has it at line 224
StopInClear(at) ==
    StopAndRestart("stop_clear", [ClearStore(Cur, "ok") EXCEPT !.file = file],
                   at, None)

\* The service on a reliable disk, stopped at any point of a write.
NextCrash ==
    \/ Construct
    \/ \E image \in EnrolImages, user_id \in Uids \cup {None} :
            AddPlain(image, user_id, "ok")
    \/ \E user_id \in Uids : Delete(user_id, "ok")
    \/ Clear("ok")
    \/ \E image \in EnrolImages, user_id \in Uids \cup {None},
          at \in (0 - 1)..(2 * MaxStore + 1) : StopInAdd(image, user_id, at)
    \/ \E user_id \in Uids, at \in (0 - 1)..(2 * MaxStore + 1) :
            StopInDelete(user_id, at)
    \/ \E at \in (0 - 1)..(2 * MaxStore + 1) : StopInClear(at)

SpecCrash == Init /\ [][NextCrash]_vars

\* ---- the claims ---------------------------------------------------------
\* the k-th smallest element of a set of indices
Nth(S, k) == CHOOSE i \in S : Cardinality({j \in S : j <= i}) = k

\* the records of a store at the indices `keep`, in their order
Kept(recs, keep) == [k \in 1..Cardinality(keep) |-> recs[Nth(keep, k)]]

\* C1: in every reachable store, for every query image with at least one
\* face and every tolerance, identify_face on a non-empty store returns a
\* match exactly when the minimum distance over all records is <= the
\* tolerance, and the match then is the record of lowest index among those
\* at the minimum distance, with that distance; otherwise it returns None.
C1_NearestWithinTolerance ==
    \A image \in QueryImages, tol \in Tolerances :
        (image.kind = "faces" /\ Len(image.faces) > 0 /\ Len(face_encodings) > 0) =>
            LET q       == image.faces[1]
                n       == Len(face_encodings)
                nearest == {i \in 1..n : \A j \in 1..n :
                                Dist2(face_encodings[i], q) <= Dist2(face_encodings[j], q)}
                first   == CHOOSE i \in nearest : \A j \in nearest : i <= j
                dmin    == Dist2(face_encodings[first], q)
                r       == IdentifyFace(Cur, image, tol)
            IN  IF tol >= 0 /\ dmin <= tol * tol
                THEN /\ r.result = "match"
                     /\ r.index = first
                     /\ r.match = Put(heap[metadata[first]], "distance", dmin)
                ELSE r = NoMatch

\* an identify_face call has matched record 1 of a store whose records 1 and
\* 2 carry different metadata and are equally near to some query
C1_Witness ==
    /\ last.op = "identify" /\ last.result = "match" /\ last.index = 1
    /\ Len(face_encodings) >= 2
    /\ heap[metadata[1]] # heap[metadata[2]]
    /\ \E q \in QueryVecs, tol \in Tolerances :
          /\ Dist2(face_encodings[1], q) = Dist2(face_encodings[2], q)
          /\ IdentifyFace(Cur, Image("faces", <<q>>), tol).index = 1

\* C2: a delete_by_user_id(u) step leaves exactly the records whose user_id
\* is not u, each encoding with its own metadata and in the same order.  When
\* some record matches, the call returns True, unless save_store failed, in
\* which case that error is raised; after a successful save the file holds
\* the remaining records.  When no record matches it returns False and the
\* lists and the file are as before.
C2_DeleteRemovesExactly ==
    [][last'.op = "delete" =>
        LET u    == last'.user_id
            pre  == Records(face_encodings, metadata, heap)
            post == Records(face_encodings', metadata', heap')
            keep == {i \in 1..Len(pre) :
                        ~("user_id" \in DOMAIN pre[i][2] /\ pre[i][2].user_id = u)}
        IN  /\ post = Kept(pre, keep)
            /\ Len(face_encodings') = Len(metadata')
            /\ IF keep = 1..Len(pre)
               THEN /\ last'.result = "False"
                    /\ ~last'.wrote
                    /\ face_encodings' = face_encodings
                    /\ metadata' = metadata
                    /\ file' = file
               ELSE /\ last'.wrote
                    /\ last'.saved => last'.result = "True"
                    /\ ~last'.saved => last'.result = "raise"
                    /\ last'.saved =>
                          Records(LoadStore(file').enc, LoadStore(file').meta,
                                  LoadStore(file').heap) = post
    ]_vars

\* a delete has removed two records with the same user_id and kept a third
C2_Witness ==
    /\ last.op = "delete" /\ last.result = "True" /\ last.removed = 2
    /\ Len(metadata) = 1

\* C3: an add_image step whose image loads and has no face returns False,
\* leaves both lists, every stored mapping and the file as they were, and
\* does not call save_store.
C3_NoFaceNoChange ==
    [][(last'.op = "add" /\ last'.faces = 0) =>
        /\ last'.result = "False"
        /\ ~last'.wrote
        /\ face_encodings' = face_encodings
        /\ metadata' = metadata
        /\ Records(face_encodings', metadata', heap')
              = Records(face_encodings, metadata, heap)
        /\ file' = file
    ]_vars

\* an add_image call on a store with records found no face
C3_Witness ==
    /\ last.op = "add" /\ last.faces = 0 /\ last.result = "False"
    /\ Len(face_encodings) >= 1
    /\ file.kind = "snapshot"

\* the records a store built now on the same path would hold
Reloaded == Records(LoadStore(file).enc, LoadStore(file).meta, LoadStore(file).heap)

\* C4: as long as every save_store call since construction has succeeded,
\* the file holds the in-memory store: a store built on the same path holds
\* the same (encoding, metadata) pairs in the same order.
C4_SnapshotIsStore ==
    hist.clean => Reloaded = Records(face_encodings, metadata, heap)

\* a second record has been added and saved
C4_Witness ==
    /\ hist.clean
    /\ last.op = "add" /\ last.result = "True" /\ last.saved
    /\ Len(metadata) = 2
    /\ heap[metadata[1]] # heap[metadata[2]]

\* C5: from the return of clear_store until an add_image returns True, the
\* store lists nothing, identify_face matches nothing whatever the query and
\* tolerance, and a store built on the same path is empty.
C5_ClearedStaysEmpty ==
    hist.cleared =>
        /\ GetAllMetadata(Cur) = <<>>
        /\ \A image \in QueryImages, tol \in Tolerances :
              IdentifyFace(Cur, image, tol) = NoMatch
        /\ Reloaded = <<>>

\* C6: a mutating call whose save_store failed ends by raising the error.
C6_WriteFailureRaised ==
    (last.op \in {"add", "delete", "clear"} /\ last.wrote /\ ~last.saved)
        => last.result = "raise"

\* C7: building a store raises nothing, and from an absent or unreadable
\* file both lists are empty.
C7_ConstructNeverFails ==
    last.op = "construct" =>
        /\ last.result # "raise"
        /\ file.kind \in {"absent", "corrupt"} =>
              face_encodings = <<>> /\ metadata = <<>>

\* a store has been built on a file that a failed write left unreadable
C7_Witness ==
    /\ last.op = "construct"
    /\ file.kind = "corrupt"
    /\ face_encodings = <<>> /\ metadata = <<>>

\* C10 as claimed: every stored mapping has a user_id key.
C10_EveryRecordHasUserId ==
    \A i \in 1..Len(metadata) : Has(heap[metadata[i]], "user_id")

\* C10 as amended: an add_image that returns True with a user_id has stored
\* a mapping whose user_id is that argument; with user_id omitted the stored
\* mapping has a user_id key exactly when the caller's mapping had one.
C10_UserIdWhenGiven ==
    (last.op = "add" /\ last.result = "True") =>
        LET stored == heap[metadata[Len(metadata)]]
        IN  IF last.user_id # None
            THEN Has(stored, "user_id") /\ stored.user_id = last.user_id
            ELSE stored = last.before

\* an add_image has overwritten the user_id of the caller's mapping
C10_Witness ==
    /\ last.op = "add" /\ last.result = "True"
    /\ last.user_id = MaxUid
    /\ last.before = [user_id |-> 1]
    /\ heap[metadata[Len(metadata)]] = [user_id |-> MaxUid]

\* C8: get_all_metadata returns the stored mappings' contents in insertion
\* order, and nothing the caller then does to the returned list or to a
\* mapping in it changes the stored records.
C8_ListIsIndependent ==
    [][/\ last'.op = "list" =>
            [i \in 1..Len(returned') |-> heap'[returned'[i]]]
                = [i \in 1..Len(metadata) |-> heap[metadata[i]]]
       /\ (\/ last'.op = "caller_edit_list"
           \/ last'.op = "caller_mutate" /\ last'.arg \in Range(returned)) =>
            Records(face_encodings', metadata', heap')
                = Records(face_encodings, metadata, heap)
    ]_vars

\* C9: an add_image that returns True with a user_id has stored that user_id,
\* has left the caller's mapping with the contents it had when passed in, and
\* nothing the caller does to that mapping afterwards changes the stored
\* records.
C9_AddStoresCopy ==
    [][/\ (last'.op = "add" /\ last'.result = "True" /\ last'.arg # None) =>
            /\ last'.user_id # None =>
                  Get(heap'[metadata'[Len(metadata')]], "user_id") = last'.user_id
            /\ heap'[last'.arg] = last'.before
       /\ (last'.op = "caller_mutate" /\ last.op = "add" /\ last'.arg = last.arg) =>
            Records(face_encodings', metadata', heap')
                = Records(face_encodings, metadata, heap)
    ]_vars

\* the first n entries of a sequence
Prefix(s, n) == [i \in 1..n |-> s[i]]

\* C11: between operations the two lists have the same length, in memory and
\* in the file, and every operation keeps each encoding with its metadata:
\* construction takes the pairs of the file, add_image keeps the pairs it
\* found and may append one pair made of its own encoding and its own
\* metadata, delete_by_user_id keeps a subsequence of the pairs, clear_store
\* leaves none and identify_face leaves all; this also when save_store
\* failed.
C11_ListsStayPaired ==
    /\ [](/\ Len(face_encodings) = Len(metadata)
          /\ Len(file.encodings) = Len(file.metadata))
    /\ [][LET pre  == Records(face_encodings, metadata, heap)
              post == Records(face_encodings', metadata', heap')
          IN  /\ last'.op = "construct" => post = Reloaded
              /\ last'.op = "add" =>
                    \/ post = pre /\ face_encodings' = face_encodings
                    \/ /\ Len(face_encodings') = Len(face_encodings) + 1
                       /\ Prefix(face_encodings', Len(face_encodings)) = face_encodings
                       /\ Prefix(post, Len(pre)) = pre
                       /\ face_encodings'[Len(face_encodings')] \in EnrolVecs
                       /\ last'.user_id # None =>
                             Get(post[Len(post)][2], "user_id") = last'.user_id
              /\ last'.op = "delete" =>
                    \E keep \in SUBSET (1..Len(pre)) :
                        /\ post = Kept(pre, keep)
                        /\ face_encodings' = Kept(face_encodings, keep)
              /\ last'.op = "clear" => post = <<>> /\ face_encodings' = <<>>
              /\ last'.op = "identify" => post = pre /\ face_encodings' = face_encodings
      ]_vars

\* a delete_by_user_id whose save_store failed has removed the first of two
\* different records
C11_Witness ==
    /\ last.op = "delete" /\ last.result = "raise" /\ last.removed = 1
    /\ Len(face_encodings) = 1 /\ Len(metadata) = 1
    /\ face_encodings[1] = <<MaxCoord, 0>>
    /\ Get(heap[metadata[1]], "user_id") # last.user_id

\* no add_image call is in progress
Quiescent == \A t \in Threads : Frame(t).pc = "idle"

\* C12: when add_image calls have run on several threads of one store and
\* none is in progress any more, the file holds the store as the call that
\* wrote last read it in pickle.dump: whatever another call appended after
\* that moment is in memory and not in the file, although that call
\* returned True as well.
C12_LastWriterWins ==
    Quiescent =>
        \A t \in Threads : Frame(t).wroteLast =>
            LET ld == LoadStore(file)
            IN  /\ ld.enc = Prefix(face_encodings, Frame(t).seen.enc)
                /\ [i \in 1..Len(ld.meta) |-> ld.heap[ld.meta[i]]]
                      = [i \in 1..Frame(t).seen.meta |-> heap[metadata[i]]]

\* two add_image calls have run on two threads of an empty store, both have
\* returned True, both records are in memory and the file holds one
C12_Witness ==
    /\ Quiescent
    /\ \A t \in Threads : Frame(t).result = "True"
    /\ Len(face_encodings) = 2 /\ Len(metadata) = 2
    /\ file.kind = "snapshot"
    /\ Len(LoadStore(file).enc) = 1 /\ Len(LoadStore(file).meta) = 1

\* C13: an add_image step that returns False, and a delete_by_user_id or
\* clear_store step that raises, leave the in-memory store as it was.
C13_FailureLeavesMemory ==
    [][(\/ last'.op = "add" /\ last'.result = "False"
        \/ last'.op \in {"delete", "clear"} /\ last'.result = "raise") =>
            /\ face_encodings' = face_encodings
            /\ Records(face_encodings', metadata', heap')
                  = Records(face_encodings, metadata, heap)
    ]_vars

\* the records the migration enrolled, among recs: they carry the name the
\* migration gave them
Migrated(recs) == {r \in Range(recs) : Has(r[2], "name")}

\* C14: when the migration has finished, every record it enrolled is in the
\* service's list and is matched by identify_face on its own encoding; and
\* an add_image, delete_by_user_id or clear_store of the service leaves
\* every migrated record of the file in the file, unless it is a clear_store
\* or a delete of that record's user_id.
C14_MigratedRecordsKept ==
    [][/\ last'.op = "migrate" =>
            \A r \in Migrated(Reloaded') :
                /\ \E i \in 1..Len(metadata') : heap'[metadata'[i]] = r[2]
                /\ IdentifyFace(Store(face_encodings', metadata', heap', file'),
                                Image("faces", <<r[1]>>), 0).result = "match"
       /\ last'.op \in {"add", "delete", "clear"} =>
            \A r \in Migrated(Reloaded) :
                \/ last'.op = "clear"
                \/ last'.op = "delete" /\ Get(r[2], "user_id") = last'.user_id
                \/ r \in Migrated(Reloaded')
    ]_vars

\* C15: when the process stops during the save_store of an add_image, a
\* delete_by_user_id or a clear_store, the store built afterwards on the same
\* path has lists of equal length and holds the records from before the
\* call, or the records the call would have left, or nothing; whenever the
\* write had started and not finished it holds nothing, whatever had been
\* saved before.
C15_StoppedWriteAllOrNothing ==
    [][last'.op \in {"stop_add", "stop_delete", "stop_clear"} =>
        LET pre  == Records(face_encodings, metadata, heap)
            new  == Records(face_encodings', metadata', heap')
            u    == last'.user_id
            post == CASE last'.op = "stop_add" ->
                            {Append(pre, <<v, IF u = None THEN EmptyDict
                                                         ELSE [user_id |-> u]>>) :
                                v \in EnrolVecs}
                      [] last'.op = "stop_delete" ->
                            {Kept(pre, {i \in 1..Len(pre) :
                                          Get(pre[i][2], "user_id") # u})}
                      [] last'.op = "stop_clear" -> {<<>>}
        IN  /\ Len(face_encodings') = Len(metadata')
            /\ new = pre \/ new \in post \/ new = <<>>
            /\ ~last'.saved /\ file' # file => new = <<>>
            /\ last'.saved => new \in post
            /\ file' = file => new = pre
    ]_vars

\* the process stopped while add_image was writing a third record: the file
\* holds all three encodings and the first metadata, and the store built on
\* it is empty
C15_Witness ==
    /\ last.op = "stop_add"
    /\ file.kind = "partial"
    /\ Len(file.encodings) = 3 /\ Len(file.metadata) = 1
    /\ face_encodings = <<>> /\ metadata = <<>>

====
